---- MODULE Spec2Model ----
(***************************************************************************)
(* regression/maml.py: the MAML regression experiment.  run(config,        *)
(* log_interval, rerun) trains a shared parameter set (model_outer) by     *)
(* adapting a working set (model_inner) on each sampled task and averaging *)
(* the held-out-loss gradients; eval(config, model, ...) reports the loss  *)
(* after adaptation on freshly sampled tasks.                              *)
(*                                                                         *)
(* A parameter set is a function 0..n-1 -> Int in the order weights,       *)
(* biases, context (n = nw + nb + 1), every tensor a scalar.  Indices are  *)
(* 0-based as in the code, so the code's index arithmetic is kept as it is.*)
(***************************************************************************)
EXTENDS Integers, Sequences, FiniteSets, TLC

\* ---------------------------------------------------------------- bounds
MaxW == 2
MaxB == 1
MaxInner == 2
MaxTasks == 2
MaxIter == 2
MaxLogInterval == 2
MaxSeed == 15
MaxSlope == 2
EvalTasks == 1
MaxEvalTasks == 2

\* config['lr_inner'], config['lr_meta']
LrInner == 2
LrMeta == 1

\* a loop variable that no loop iteration has bound yet
Undef == -1

\* ------------------------------------------------- arithmetic and vectors
Sign(v) == IF v > 0 THEN 1 ELSE IF v < 0 THEN -1 ELSE 0

RECURSIVE SumTo(_, _)
\* f[0] + ... + f[n-1]
SumTo(f, n) == IF n = 0 THEN 0 ELSE f[n - 1] + SumTo(f, n - 1)

RECURSIVE SeqMin(_)
SeqMin(q) == IF Len(q) = 1 THEN q[1]
             ELSE LET m == SeqMin(Tail(q)) IN IF q[1] < m THEN q[1] ELSE m

Zeros(n) == [k \in 0..(n - 1) |-> 0]
Unit(p, n) == [k \in 0..(n - 1) |-> IF k = p THEN 1 ELSE 0]
Identity(n) == [p \in 0..(n - 1) |-> Unit(p, n)]
Size(p) == Cardinality(DOMAIN p)

\* ------------------------------------------------ seeded random sampling
\* utils.set_seed(config['seed']) fixes the stream every sampler draws from.
SeedRng(seed) == seed + 1
NextRng(r) == (r * 12) % 67
RECURSIVE RngAt(_, _)
RngAt(r, d) == IF d = 0 THEN r ELSE RngAt(NextRng(r), d - 1)
Draw(r, k) == r % k

\* ----------------------------------- the adaptable function and its tasks
\* A task is a slope a in 1..MaxSlope; an input is x in 0..n.  The function
\* reads parameter x for x < n and is flat (constant 0) at x = n.
Slopes == 1..MaxSlope
SampleTask(r) == 1 + Draw(r, MaxSlope)
SampleInput(r, n) == Draw(r, n + 1)
Target(a, x) == a + x
Forward(p, x) == IF x \in DOMAIN p THEN p[x] ELSE 0
\* F.mse_loss on a batch of one
MseLoss(out, y) == (out - y) * (out - y)
\* torch.autograd.grad of MseLoss(Forward(p, x), Target(a, x)) w.r.t. p
GradLoss(p, x, a) ==
    [k \in DOMAIN p |-> IF k = x THEN 2 * (Forward(p, x) - Target(a, x)) ELSE 0]
\* its derivative (create_graph=True): row k is d grads[k] / d p
Hess(x, n) ==
    [k \in 0..(n - 1) |-> [m \in 0..(n - 1) |-> IF k = x /\ m = x THEN 2 ELSE 0]]
\* F.mse_loss over get_input_range(), the inputs 0..n, as the sum of the
\* squared errors: the mean times the fixed batch size n + 1.
RangeLoss(p, a) ==
    LET n == Size(p)
        sq == [x \in 0..n |-> MseLoss(Forward(p, x), Target(a, x))]
    IN SumTo(sq, n + 1)

\* -------------------------------------------------------- configuration
DefaultKeys == {"method", "task", "seed", "n_hidden"}
ExtraKeys == {"note", "tag"}
AllKeys == DefaultKeys \cup ExtraKeys

NParams(c) == c.nw + c.nb + 1

VARIABLES
    cfg,              \* config, log_interval and the rerun flag of each call
    pc, err,          \* position in run / eval, and the exception raised
    call,             \* which call of run is executing
    disk,             \* <<>> or <<record>>: the pickled logger at path
    result,           \* what each finished call returned
    warned, printed,  \* warnings.warn fired, and the key list printed
    rng,
    model_outer, outer_grad, model_inner,
    copy_params,      \* copy_weights + copy_biases + [copy_context]
    meta_gradient, target_functions, train_inputs, test_inputs, task_grads,
    i_iter, t, s, i, j,
    logger,
    ev,               \* eval's arguments and locals
    \* history, read by no action
    task_hist,        \* task_grads of each task of this outer iteration
    opt_steps,        \* meta_optimiser.step() calls of this call of run
    ckpt_models,      \* model_outer at each checkpoint of this call
    work,             \* iterations, optimizer steps, evaluations of this call
    ev_entry          \* eval's model as it was when eval was entered

vars == <<cfg, pc, err, call, disk, result, warned, printed, rng,
          model_outer, outer_grad, model_inner, copy_params, meta_gradient,
          target_functions, train_inputs, test_inputs, task_grads,
          i_iter, t, s, i, j, logger, ev,
          task_hist, opt_steps, ckpt_models, work, ev_entry>>

runVars == <<model_outer, outer_grad, model_inner, copy_params, meta_gradient,
             target_functions, train_inputs, test_inputs, task_grads,
             i_iter, t, s, i, j, task_hist, opt_steps>>
envVars == <<cfg, call, disk, result, warned, printed>>


\* ------------------------------------------------------ run: the pieces
EmptyLogger(m) ==
    [train_loss |-> <<>>, valid_loss |-> <<>>, test_loss |-> <<>>,
     best_valid_model |-> m]

\* MamlModel(...) after set_seed: n freshly drawn parameters
InitModel(r, n) == [k \in 0..(n - 1) |-> Draw(RngAt(r, k), 3)]

\* the reset done on detached copies: no graph back to model_outer
ResetInnerDetached(c) ==
    [val |-> c, jac |-> [p \in 0..(Size(c) - 1) |-> Zeros(Size(c))]]

\* a working set: its values, and row p = d param[p] / d model_outer, the
\* part of the differentiation graph that torch.autograd.grad follows
\* model_inner.weights = [w.clone() for w in copy_weights], ...
ResetInner(c) == [val |-> c, jac |-> Identity(Size(c))]

\* the value of a for-loop variable after `for v in range(len)`
AfterLoop(v, len) == IF len > 0 THEN len - 1 ELSE v

\* the component read for parameter p (weights, then biases, then context):
\* grads[i], grads[i + j + 1], grads[i + j + 2], iv and jv the loop
\* variables as the code finds them
GradIndex(p, nw, nb, iv, jv) ==
    IF p < nw THEN p
    ELSE IF p < nw + nb THEN iv + (p - nw) + 1
    ELSE iv + jv + 2

\* the exception the three loops raise on a vector of len components
MapError(nw, nb, iv, jv, len) ==
    IF nb > 0 /\ iv = Undef THEN "UnboundLocalError"
    ELSE IF nb > 0 /\ iv + (nb - 1) + 1 >= len THEN "IndexError"
    ELSE IF iv = Undef \/ jv = Undef THEN "UnboundLocalError"
    ELSE IF iv + jv + 2 >= len THEN "IndexError"
    ELSE "none"

\* the parameters the inner update is computed from
InnerBase(outer, inner) == outer

\* .detach() forgotten in the first-order branch
InnerJacTermAttached(hrow, first_order) ==
    [m \in DOMAIN hrow |-> LrInner * hrow[m]]

\* row idx of the graph of lr_inner * grads[idx], dropped by .detach()
InnerJacTerm(hrow, first_order) ==
    [m \in DOMAIN hrow |-> IF first_order THEN 0 ELSE LrInner * hrow[m]]

\* lines 112-127: model_inner.<p> = <base>.<p> - lr_inner * grads[idx]
InnerStep(base, grads, hess, c, iv, jv) ==
    LET n == NParams(c)
        idx(p) == GradIndex(p, c.nw, c.nb, iv, jv)
    IN [val |-> [p \in 0..(n - 1) |-> base[p] - LrInner * grads[idx(p)]],
        jac |-> [p \in 0..(n - 1) |->
                   LET term == InnerJacTerm(hess[idx(p)], c.first_order)
                   IN [m \in 0..(n - 1) |-> Unit(p, n)[m] - term[m]]]]

\* torch.autograd.grad(loss_meta, model_outer parameters): the chain rule
\* through the working set's graph
TaskGrads(inner, x, a) ==
    LET n == Size(inner.val)
        gl == GradLoss(inner.val, x, a)
    IN [m \in 0..(n - 1) |->
          SumTo([k \in 0..(n - 1) |-> gl[k] * inner.jac[k][m]], n)]

\* `=` written for `+=`
AccumulateOverwrite(mg, tg) == tg

\* meta_gradient[i] += task_grads[i].detach()
Accumulate(mg, tg) == [k \in DOMAIN mg |-> mg[k] + tg[k]]

\* the task loop left after its first task
TasksLoopDoneEarly(tt, c) == tt >= 1

\* the loop `for t in range(config['tasks_per_metaupdate'])` has ended
TasksLoopDone(tt, c) == tt >= c.T

\* <param>.grad = meta_gradient[idx] / tasks_per_metaupdate, kept exact
AssignedGrad(mg, c, iv, jv) ==
    [p \in 0..(NParams(c) - 1) |->
        [num |-> mg[GradIndex(p, c.nw, c.nb, iv, jv)], den |-> c.T]]

\* meta_optimiser.step(): Adam's bias-corrected first step moves every
\* parameter by lr_meta against the sign of its gradient; later steps, which
\* also weigh the earlier gradients, are taken by the same rule
AdamStep(p, g) == [k \in DOMAIN p |-> p[k] - LrMeta * Sign(g[k].num)]

\* the rerun flag read the wrong way round
CacheHitInverted(d, rr) == d # <<>> /\ rr

\* os.path.exists(path + '.pkl') and not rerun
CacheHit(d, rr) == d # <<>> /\ ~rr

RECURSIVE SumSeq(_)
SumSeq(q) == IF q = <<>> THEN 0 ELSE q[1] + SumSeq(Tail(q))

NoEval ==
    [model |-> <<>>, nw |-> 0, nb |-> 0, num_updates |-> 0, n_tasks |-> 0,
     ret |-> "caller", copy_params |-> <<>>, t |-> 0, s |-> 0,
     i |-> Undef, j |-> Undef, a |-> 0, x |-> 0, losses |-> <<>>]

Crash(e) == /\ pc' = "crashed"
            /\ err' = e

\* ------------------------------------------------------ run: the actions
\* lines 23-33
Enter ==
    /\ pc = "entry"
    /\ work' = 0
    /\ IF ~({"method", "task"} \subseteq cfg.keys)
       THEN /\ Crash("KeyError")
            /\ UNCHANGED result
       ELSE IF CacheHit(disk, cfg.reruns[call])
       THEN /\ result' = Append(result, disk[1])
            /\ pc' = "returned"
            /\ err' = err
       ELSE /\ pc' = "warn"
            /\ UNCHANGED <<err, result>>
    /\ UNCHANGED <<cfg, call, disk, warned, printed, rng, runVars, logger, ev,
                   ckpt_models, ev_entry>>

\* lines 37-40
WarnKeys ==
    /\ pc = "warn"
    /\ IF Cardinality(cfg.keys) # Cardinality(DefaultKeys)
       THEN /\ warned' = TRUE
            /\ printed' = {k \in cfg.keys : k \notin DefaultKeys}
       ELSE UNCHANGED <<warned, printed>>
    /\ pc' = "init"
    /\ UNCHANGED <<cfg, err, call, disk, result, rng, runVars, logger, ev,
                   ckpt_models, work, ev_entry>>

\* lines 42-73, config['task'] being 'sine'
Initialise ==
    /\ pc = "init"
    /\ IF ~({"seed", "n_hidden"} \subseteq cfg.keys)
       THEN /\ Crash("KeyError")
            /\ UNCHANGED <<rng, runVars, logger, ckpt_models>>
       ELSE LET n == NParams(cfg)
                m == InitModel(SeedRng(cfg.seed), n)
            IN /\ rng' = RngAt(SeedRng(cfg.seed), n)
               /\ model_inner' = [val |-> m, jac |-> [p \in 0..(n - 1) |-> Zeros(n)]]
               /\ model_outer' = m
               /\ outer_grad' = <<>>
               /\ logger' = EmptyLogger(m)
               /\ i_iter' = 0
               /\ i' = Undef
               /\ j' = Undef
               /\ opt_steps' = 0
               /\ ckpt_models' = <<>>
               /\ pc' = "iter"
               /\ err' = err
               /\ UNCHANGED <<copy_params, meta_gradient, target_functions,
                              train_inputs, test_inputs, task_grads, t, s,
                              task_hist>>
    /\ UNCHANGED <<envVars, ev, work, ev_entry>>

\* lines 75-86
IterStart ==
    /\ pc = "iter"
    /\ i_iter < cfg.n_iter
    /\ copy_params' = model_outer
    /\ meta_gradient' = Zeros(Size(model_outer))
    /\ target_functions' = [tt \in 0..(cfg.T - 1) |-> SampleTask(RngAt(rng, tt))]
    /\ rng' = RngAt(rng, cfg.T)
    /\ t' = 0
    /\ task_hist' = <<>>
    /\ work' = work + 1
    /\ pc' = "task"
    /\ UNCHANGED <<envVars, err, model_outer, outer_grad, model_inner,
                   train_inputs, test_inputs, task_grads, i_iter, s, i, j,
                   logger, ev, opt_steps, ckpt_models, ev_entry>>

\* lines 88-96
TaskReset ==
    /\ pc = "task"
    /\ ~TasksLoopDone(t, cfg)
    /\ model_inner' = ResetInner(copy_params)
    /\ train_inputs' = SampleInput(rng, NParams(cfg))
    /\ rng' = NextRng(rng)
    /\ s' = 0
    /\ pc' = "inner"
    /\ UNCHANGED <<envVars, err, model_outer, outer_grad, copy_params,
                   meta_gradient, target_functions, test_inputs, task_grads,
                   i_iter, t, i, j, logger, ev, task_hist, opt_steps,
                   ckpt_models, work, ev_entry>>

\* lines 98-127
InnerUpdate ==
    /\ pc = "inner"
    /\ s < cfg.K
    /\ LET n == NParams(cfg)
           base == InnerBase(model_outer, model_inner.val)
           grads == GradLoss(base, train_inputs, target_functions[t])
           iv == AfterLoop(i, cfg.nw)
           jv == AfterLoop(j, cfg.nb)
           e == MapError(cfg.nw, cfg.nb, iv, jv, n)
       IN IF e # "none"
          THEN /\ Crash(e)
               /\ UNCHANGED <<model_inner, s, i, j>>
          ELSE /\ model_inner' = InnerStep(base, grads, Hess(train_inputs, n),
                                           cfg, iv, jv)
               /\ s' = s + 1
               /\ i' = iv
               /\ j' = jv
               /\ UNCHANGED <<pc, err>>
    /\ UNCHANGED <<envVars, rng, model_outer, outer_grad, copy_params,
                   meta_gradient, target_functions, train_inputs, test_inputs,
                   task_grads, i_iter, t, logger, ev, task_hist, opt_steps,
                   ckpt_models, work, ev_entry>>

\* lines 129-147
MetaGrad ==
    /\ pc = "inner"
    /\ s >= cfg.K
    /\ LET x == SampleInput(rng, NParams(cfg))
           tg == TaskGrads(model_inner, x, target_functions[t])
       IN /\ test_inputs' = x
          /\ task_grads' = tg
          /\ meta_gradient' = Accumulate(meta_gradient, tg)
          /\ task_hist' = Append(task_hist, tg)
    /\ rng' = NextRng(rng)
    /\ i' = NParams(cfg) - 1
    /\ t' = t + 1
    /\ pc' = "task"
    /\ UNCHANGED <<envVars, err, model_outer, outer_grad, model_inner,
                   copy_params, target_functions, train_inputs, i_iter, s, j,
                   logger, ev, opt_steps, ckpt_models, work, ev_entry>>

\* lines 151-162
AssignGrad ==
    /\ pc = "task"
    /\ TasksLoopDone(t, cfg)
    /\ LET n == NParams(cfg)
           iv == AfterLoop(i, cfg.nw)
           jv == AfterLoop(j, cfg.nb)
           e == MapError(cfg.nw, cfg.nb, iv, jv, n)
       IN IF e # "none"
          THEN /\ Crash(e)
               /\ UNCHANGED <<outer_grad, meta_gradient, i, j>>
          ELSE /\ outer_grad' = AssignedGrad(meta_gradient, cfg, iv, jv)
               /\ meta_gradient' =
                    [k \in 0..(n - 1) |->
                       IF \E p \in 0..(n - 1) :
                            GradIndex(p, cfg.nw, cfg.nb, iv, jv) = k
                       THEN 0 ELSE meta_gradient[k]]
               /\ i' = iv
               /\ j' = jv
               /\ pc' = "step"
               /\ err' = err
    /\ UNCHANGED <<envVars, rng, model_outer, model_inner, copy_params,
                   target_functions, train_inputs, test_inputs, task_grads,
                   i_iter, t, s, logger, ev, task_hist, opt_steps,
                   ckpt_models, work, ev_entry>>

\* line 165
OptStep ==
    /\ pc = "step"
    /\ model_outer' = AdamStep(model_outer, outer_grad)
    /\ opt_steps' = opt_steps + 1
    /\ work' = work + 1
    /\ pc' = "log"
    /\ UNCHANGED <<envVars, err, rng, outer_grad, model_inner, copy_params,
                   meta_gradient, target_functions, train_inputs, test_inputs,
                   task_grads, i_iter, t, s, i, j, logger, ev, task_hist,
                   ckpt_models, ev_entry>>

\* line 169
LogCheck ==
    /\ pc = "log"
    /\ IF i_iter % cfg.log_interval = 0
       THEN /\ pc' = "eval_train"
            /\ UNCHANGED i_iter
       ELSE /\ pc' = "iter"
            /\ i_iter' = i_iter + 1
    /\ UNCHANGED <<envVars, err, rng, model_outer, outer_grad, model_inner,
                   copy_params, meta_gradient, target_functions, train_inputs,
                   test_inputs, task_grads, t, s, i, j, logger, ev, task_hist,
                   opt_steps, ckpt_models, work, ev_entry>>

\* lines 172-173, 178-179, 184-185: eval(config, copy.deepcopy(model_outer),
\* task_family, num_updates=config['num_inner_updates'])
CallEval ==
    /\ pc \in {"eval_train", "eval_valid", "eval_test"}
    /\ ev' = [NoEval EXCEPT !.model = model_outer,
                            !.nw = cfg.nw, !.nb = cfg.nb,
                            !.num_updates = cfg.K,
                            !.n_tasks = EvalTasks,
                            !.ret = pc]
    /\ ev_entry' = model_outer
    /\ work' = work + 1
    /\ pc' = "ev_enter"
    /\ UNCHANGED <<envVars, err, rng, runVars, logger, ckpt_models>>

\* ----------------------------------------------------------------- eval
\* model.<p> = model.<p> - lr_inner * grads[idx].detach(), lines 253-257
EvalStep(m, grads, nw, nb, iv, jv) ==
    [p \in DOMAIN m |-> m[p] - LrInner * grads[GradIndex(p, nw, nb, iv, jv)]]

\* the reset left out: the model keeps the previous task's adaptation
EvalRestoreSkipped(m, c) == m

\* model.weights = [w.clone() for w in copy_weights], ... (lines 227-229
\* and 265-267)
EvalRestore(m, c) == c

\* lines 209-220
EvalEnter ==
    /\ pc = "ev_enter"
    /\ ev' = [ev EXCEPT !.copy_params = ev.model, !.losses = <<>>, !.t = 0]
    /\ pc' = "ev_task"
    /\ UNCHANGED <<envVars, err, rng, runVars, logger, ckpt_models, work,
                   ev_entry>>

\* lines 224-236
EvalTask ==
    /\ pc = "ev_task"
    /\ ev.t < ev.n_tasks
    /\ ev' = [ev EXCEPT !.model = EvalRestore(ev.model, ev.copy_params),
                        !.a = SampleTask(rng),
                        !.x = SampleInput(NextRng(rng), Size(ev.model)),
                        !.s = 0]
    /\ rng' = RngAt(rng, 2)
    /\ pc' = "ev_update"
    /\ UNCHANGED <<envVars, err, runVars, logger, ckpt_models, work, ev_entry>>

\* lines 240-257
EvalUpdate ==
    /\ pc = "ev_update"
    /\ ev.s < ev.num_updates
    /\ LET grads == GradLoss(ev.model, ev.x, ev.a)
           iv == AfterLoop(ev.i, ev.nw)
           jv == AfterLoop(ev.j, ev.nb)
           e == MapError(ev.nw, ev.nb, iv, jv, Size(ev.model))
       IN IF e # "none"
          THEN /\ Crash(e)
               /\ UNCHANGED ev
          ELSE /\ ev' = [ev EXCEPT
                           !.model = EvalStep(ev.model, grads, ev.nw, ev.nb, iv, jv),
                           !.s = ev.s + 1, !.i = iv, !.j = jv]
               /\ UNCHANGED <<pc, err>>
    /\ UNCHANGED <<envVars, rng, runVars, logger, ckpt_models, work, ev_entry>>

\* line 262
EvalRecord ==
    /\ pc = "ev_update"
    /\ ev.s >= ev.num_updates
    /\ ev' = [ev EXCEPT !.losses = Append(ev.losses, RangeLoss(ev.model, ev.a)),
                        !.t = ev.t + 1]
    /\ pc' = "ev_task"
    /\ UNCHANGED <<envVars, err, rng, runVars, logger, ckpt_models, work,
                   ev_entry>>

\* lines 264-275
EvalFinish ==
    /\ pc = "ev_task"
    /\ ev.t >= ev.n_tasks
    /\ ev' = [ev EXCEPT !.model = EvalRestore(ev.model, ev.copy_params)]
    /\ pc' = "ev_done"
    /\ UNCHANGED <<envVars, err, rng, runVars, logger, ckpt_models, work,
                   ev_entry>>

\* ------------------------------------------------- run: the logging branch
\* np.mean(losses) times the fixed n_tasks
LossMean(losses) == SumSeq(losses)

\* lines 174-175, 180-181, 186-187
LogAppend ==
    /\ pc = "ev_done"
    /\ ev.ret # "caller"
    /\ LET m == LossMean(ev.losses)
       IN CASE ev.ret = "eval_train" ->
                 /\ logger' = [logger EXCEPT !.train_loss = Append(@, m)]
                 /\ pc' = "eval_valid"
            [] ev.ret = "eval_valid" ->
                 /\ logger' = [logger EXCEPT !.valid_loss = Append(@, m)]
                 /\ pc' = "eval_test"
            [] OTHER ->
                 /\ logger' = [logger EXCEPT !.test_loss = Append(@, m)]
                 /\ pc' = "save"
    /\ UNCHANGED <<envVars, err, rng, runVars, ev, ckpt_models, work, ev_entry>>

\* utils.save_obj(logger, path)
Pickled(lg) == lg

\* line 190
Save ==
    /\ pc = "save"
    /\ disk' = <<Pickled(logger)>>
    /\ ckpt_models' = Append(ckpt_models, model_outer)
    /\ pc' = "best"
    /\ UNCHANGED <<cfg, call, result, warned, printed, err, rng, runVars,
                   logger, ev, work, ev_entry>>

\* logger.valid_loss[-1] == np.min(logger.valid_loss)
IsBest(valid_loss) == valid_loss[Len(valid_loss)] = SeqMin(valid_loss)

\* lines 193-204
Best ==
    /\ pc = "best"
    /\ IF IsBest(logger.valid_loss)
       THEN logger' = [logger EXCEPT !.best_valid_model = model_outer]
       ELSE UNCHANGED logger
    /\ i_iter' = i_iter + 1
    /\ pc' = "iter"
    /\ UNCHANGED <<envVars, err, rng, model_outer, outer_grad, model_inner,
                   copy_params, meta_gradient, target_functions, train_inputs,
                   test_inputs, task_grads, t, s, i, j, ev, task_hist,
                   opt_steps, ckpt_models, work, ev_entry>>

\* line 206
Return ==
    /\ pc = "iter"
    /\ i_iter >= cfg.n_iter
    /\ result' = Append(result, logger)
    /\ pc' = "returned"
    /\ UNCHANGED <<cfg, call, disk, warned, printed, err, rng, runVars,
                   logger, ev, ckpt_models, work, ev_entry>>

\* the caller calls run again with the same config
NextCall ==
    /\ pc = "returned"
    /\ call < Len(cfg.reruns)
    /\ call' = call + 1
    /\ pc' = "entry"
    /\ UNCHANGED <<cfg, disk, result, warned, printed, err, rng, runVars,
                   logger, ev, ckpt_models, work, ev_entry>>

\* ------------------------------------------------------- specifications
Blank(c, p, r) ==
    /\ cfg = c
    /\ pc = p
    /\ err = "none"
    /\ call = 1
    /\ disk = <<>>
    /\ result = <<>>
    /\ warned = FALSE
    /\ printed = {}
    /\ rng = r
    /\ model_outer = <<>>
    /\ outer_grad = <<>>
    /\ model_inner = [val |-> <<>>, jac |-> <<>>]
    /\ copy_params = <<>>
    /\ meta_gradient = <<>>
    /\ target_functions = <<>>
    /\ train_inputs = 0
    /\ test_inputs = 0
    /\ task_grads = <<>>
    /\ i_iter = 0
    /\ t = 0
    /\ s = 0
    /\ i = Undef
    /\ j = Undef
    /\ logger = EmptyLogger(<<>>)
    /\ task_hist = <<>>
    /\ opt_steps = 0
    /\ ckpt_models = <<>>
    /\ work = 0

Config(nw, nb, K, fo, T, n, li, seed, keys, reruns) ==
    [nw |-> nw, nb |-> nb, K |-> K, first_order |-> fo, T |-> T, n_iter |-> n,
     log_interval |-> li, seed |-> seed, keys |-> keys, reruns |-> reruns]

\* one call of run, as __main__ makes it (rerun=True), over every shape of
\* the parameter set and every inner-loop setting
Init ==
    \E nw \in 0..MaxW, nb \in 0..MaxB, K \in 0..MaxInner, fo \in BOOLEAN,
       T \in 1..MaxTasks, n \in 0..MaxIter, li \in 1..MaxLogInterval,
       seed \in 0..MaxSeed :
        /\ Blank(Config(nw, nb, K, fo, T, n, li, seed, DefaultKeys, <<TRUE>>),
                 "entry", 0)
        /\ ev = NoEval
        /\ ev_entry = <<>>

Next ==
    \/ Enter \/ WarnKeys \/ Initialise
    \/ IterStart \/ TaskReset \/ InnerUpdate \/ MetaGrad \/ AssignGrad
    \/ OptStep \/ LogCheck \/ CallEval
    \/ EvalEnter \/ EvalTask \/ EvalUpdate \/ EvalRecord \/ EvalFinish
    \/ LogAppend \/ Save \/ Best \/ Return

Spec == Init /\ [][Next]_vars

\* two calls of run with one config, over every iteration count, log
\* interval and rerun flag
InitPersist ==
    \E K \in 0..MaxInner, n \in 0..MaxIter, li \in 1..MaxLogInterval,
       seed \in 0..MaxSeed, rr \in [1..2 -> BOOLEAN] :
        /\ Blank(Config(1, 1, K, FALSE, 1, n, li, seed, DefaultKeys,
                        <<rr[1], rr[2]>>), "entry", 0)
        /\ ev = NoEval
        /\ ev_entry = <<>>

NextPersist == Next \/ NextCall

SpecPersist == InitPersist /\ [][NextPersist]_vars

\* the start of run over every key set of the config
InitConfig ==
    \E keys \in SUBSET AllKeys, seed \in 0..MaxSeed :
        /\ Blank(Config(1, 1, 1, FALSE, 1, 1, 1, seed, keys, <<TRUE>>), "entry", 0)
        /\ ev = NoEval
        /\ ev_entry = <<>>

NextConfig == Enter \/ WarnKeys \/ Initialise

SpecConfig == InitConfig /\ [][NextConfig]_vars

\* eval called on its own, over every model shape, n_tasks and num_updates
InitEval ==
    \E nw \in 0..MaxW, nb \in 0..MaxB, K \in 0..MaxInner,
       nt \in 0..MaxEvalTasks, seed \in 0..MaxSeed :
        LET n == nw + nb + 1
            m == InitModel(SeedRng(seed), n)
        IN /\ Blank(Config(nw, nb, K, FALSE, 1, 0, 1, seed, DefaultKeys,
                           <<TRUE>>), "ev_enter", RngAt(SeedRng(seed), n))
           /\ ev = [NoEval EXCEPT !.model = m, !.nw = nw, !.nb = nb,
                                  !.num_updates = K, !.n_tasks = nt]
           /\ ev_entry = m

NextEval == EvalEnter \/ EvalTask \/ EvalUpdate \/ EvalRecord \/ EvalFinish

SpecEval == InitEval /\ [][NextEval]_vars

\* ----------------------------------------------------------- the claims
NoIndexError == err \notin {"UnboundLocalError", "IndexError"}
Shape(c) == 0..(NParams(c) - 1)
\* the task whose held-out gradient was computed last
LastTask == target_functions[t - 1]
AfterMetaGrad == pc = "task" /\ t > 0

\* K successive gradient-descent steps, each from the parameters the
\* previous one produced
RECURSIVE GDSteps(_, _, _, _)
GDSteps(p, x, a, k) ==
    IF k = 0 THEN p
    ELSE LET q == GDSteps(p, x, a, k - 1)
             g == GradLoss(q, x, a)
         IN [m \in DOMAIN q |-> q[m] - LrInner * g[m]]

\* C1: when the inner loop of run has ended, the adapted set handed to the
\* held-out evaluation is the result of num_inner_updates successive
\* gradient-descent steps from the iteration's snapshot, each step's gradient
\* taken at the parameters the previous step produced.
C1_AdaptedIsKSteps ==
    (pc = "inner" /\ s = cfg.K) =>
        model_inner.val = GDSteps(copy_params, train_inputs,
                                  target_functions[t], cfg.K)

\* C2: with num_inner_updates = 0 the adapted set equals the snapshot of the
\* shared set taken at the start of the outer iteration, and the task's
\* meta-gradient is the held-out-loss gradient at the unmodified shared set.
C2_ZeroStepsIdentity ==
    /\ (pc = "inner" /\ cfg.K = 0) =>
          (model_inner.val = copy_params /\ copy_params = model_outer)
    /\ (AfterMetaGrad /\ cfg.K = 0) =>
          /\ model_inner.val = model_outer
          /\ task_grads = GradLoss(model_outer, test_inputs, LastTask)

C2_Witness ==
    /\ AfterMetaGrad
    /\ cfg.K = 0
    /\ i_iter = 1
    /\ \E k \in DOMAIN task_grads : task_grads[k] # 0

\* C3: for every shape (nw, nb), zero counts included, each place that maps
\* a gradient vector back to the parameters reads component p for the p-th
\* parameter in the order weights, biases, context, and reads no undefined
\* loop variable and no index outside the vector.
C3_OrderingContract ==
    /\ NoIndexError
    /\ (pc = "step" \/ (pc = "inner" /\ s > 0)) =>
          \A p \in Shape(cfg) : GradIndex(p, cfg.nw, cfg.nb, i, j) = p
    /\ (pc = "ev_update" /\ ev.s > 0) =>
          \A p \in DOMAIN ev.model : GradIndex(p, ev.nw, ev.nb, ev.i, ev.j) = p

HistSum(k) == SumSeq([tt \in 1..Len(task_hist) |-> task_hist[tt][k]])

\* C4: the gradient assigned to the shared parameters has nw + nb + 1
\* components, and component k is the sum over all T tasks of the task's
\* held-out gradient component k, divided by T; T identical task gradients
\* give the gradient of one.
C4_MetaGradientIsMean ==
    pc = "step" =>
        /\ DOMAIN outer_grad = Shape(cfg)
        /\ Len(task_hist) = cfg.T
        /\ \A k \in Shape(cfg) :
              /\ outer_grad[k].den = cfg.T
              /\ outer_grad[k].num = HistSum(k)
              /\ (\A tt \in 1..cfg.T : task_hist[tt] = task_hist[1]) =>
                    outer_grad[k].num = outer_grad[k].den * task_hist[1][k]

C4_Witness ==
    /\ pc = "step"
    /\ cfg.T = 2
    /\ task_hist[1] # task_hist[2]
    /\ \E k \in Shape(cfg) : task_hist[1][k] # 0 /\ task_hist[2][k] # 0

\* the held-out-loss gradient at the adapted parameters
HeldOutGrad == GradLoss(model_inner.val, test_inputs, LastTask)
\* the term from differentiating the inner gradient
SecondOrderTerm ==
    LET n == NParams(cfg)
        h == Hess(train_inputs, n)
    IN [m \in Shape(cfg) |->
          LrInner * SumTo([k \in Shape(cfg) |-> HeldOutGrad[k] * h[k][m]], n)]
FlatTrainLoss == \A k \in Shape(cfg), m \in Shape(cfg) :
                    Hess(train_inputs, NParams(cfg))[k][m] = 0

\* C5: in first-order mode the task's meta-gradient is the held-out-loss
\* gradient at the adapted parameters; in full mode it also holds the term
\* from differentiating the inner gradient; where the training loss has no
\* curvature the two coincide.
C5_FirstOrderVsFull ==
    AfterMetaGrad =>
        /\ cfg.first_order => task_grads = HeldOutGrad
        /\ (~cfg.first_order /\ cfg.K >= 1) =>
              task_grads = [m \in Shape(cfg) |->
                              HeldOutGrad[m] - SecondOrderTerm[m]]
        /\ (cfg.K = 0 \/ FlatTrainLoss) => task_grads = HeldOutGrad

C5_Witness ==
    /\ AfterMetaGrad
    /\ ~cfg.first_order
    /\ cfg.K = 1
    /\ task_grads # HeldOutGrad

\* C6: the shared parameters change only in the optimizer step, taken after
\* all T tasks of the iteration are accumulated, and exactly one step has
\* been taken per outer iteration completed; sampling, inner updates,
\* held-out evaluation, eval and the best-snapshot branch leave them alone.
C6_SharedChangesOnlyInStep ==
    [][ /\ model_outer' # model_outer =>
              \/ pc = "init"
              \/ pc = "step" /\ t = cfg.T /\ Len(task_hist) = cfg.T
        /\ pc' = "iter" => opt_steps' = i_iter'
      ]_vars

C6_Witness ==
    /\ pc = "best"
    /\ opt_steps = 2
    /\ cfg.T = 2
    /\ model_outer # copy_params

\* C7: right after run persists the logger, the persisted best-validation
\* snapshot is the shared set of a checkpoint whose validation loss is the
\* minimum of the persisted validation losses.
C7_PersistedBestIsMin ==
    pc = "best" =>
        \E c \in 1..Len(disk[1].valid_loss) :
            /\ disk[1].valid_loss[c] = SeqMin(disk[1].valid_loss)
            /\ disk[1].best_valid_model = ckpt_models[c]

SecondCallCached == Len(result) = 2 /\ ~cfg.reruns[2]

\* C8 as claimed: for every iteration count, a second call with rerun =
\* False returns the record the first call persisted and does no work.
C8_SecondCallReturnsPersisted ==
    SecondCallCached => (disk # <<>> /\ result[2] = disk[1] /\ work = 0)

\* C8 as amended: the same, for n_iter >= 1.
C8_SecondCallReturnsPersistedIfAny ==
    (SecondCallCached /\ cfg.n_iter >= 1) =>
        (disk # <<>> /\ result[2] = disk[1] /\ work = 0)

C8_Witness ==
    /\ SecondCallCached
    /\ cfg.n_iter = 2
    /\ work = 0
    /\ Len(result[2].valid_loss) = 2

\* C9: once the key check has run, a config with a key outside the default
\* key set has raised the warning and printed exactly those keys, and run
\* goes on.
C9_ExtraKeysWarned ==
    (pc = "init" /\ cfg.keys \ DefaultKeys # {}) =>
        (warned /\ printed = cfg.keys \ DefaultKeys)

\* C10: in eval, each task's adaptation starts from the model's values at
\* entry, and when eval returns the model holds those values again.
C10_EvalRestoresModel ==
    /\ (pc = "ev_update" /\ ev.s = 0) => ev.model = ev_entry
    /\ pc = "ev_done" => ev.model = ev_entry

C10_Witness ==
    /\ pc = "ev_done"
    /\ ev.n_tasks = 2
    /\ ev.num_updates >= 1
    /\ ev.losses[2] # RangeLoss(ev_entry, ev.a)

====
